---- MODULE Spec2Model ----
(***************************************************************************)
(* Model of lvr2's BVHTree (include/lvr2/geometry/BVH.tcc): preprocessing  *)
(* of the faces into the triangle store and the AABB work list, the        *)
(* fork-join recursive build (buildTreeRecursive, OpenMP tasks), the       *)
(* flattening pass (createCFTree) and the triangle-data copy pass.         *)
(*                                                                         *)
(* Coordinates are integers, so every float operation of the code (min,    *)
(* max, differences, products, floor of a quotient) is exact in the model. *)
(* A Normal (unit vector) is represented by the primitive integer vector   *)
(* of its direction (the vector divided by the gcd of its components).     *)
(* Centroid coordinates are kept doubled (min + max) to stay integral.     *)
(***************************************************************************)
EXTENDS Integers, Sequences, FiniteSets, TLC

\* ------------------------------------------------------------------ bounds
\* Number of faces of the master mesh; an input mesh is any subsequence.
MaxFaces == 9

\* ------------------------------------------------------- program constants
BUCKETS == 32
LeafSize == 4
sizePerTriangle == 16

\* ------------------------------------------------------------ vector maths
Null == 0

Vec(x, y, z) == <<x, y, z>>

VSub(a, b) == <<a[1] - b[1], a[2] - b[2], a[3] - b[3]>>

VAdd(a, b) == <<a[1] + b[1], a[2] + b[2], a[3] + b[3]>>

VScale(k, a) == <<k * a[1], k * a[2], k * a[3]>>

Dot(a, b) == a[1] * b[1] + a[2] * b[2] + a[3] * b[3]

Cross(a, b) ==
    << a[2] * b[3] - a[3] * b[2],
       a[3] * b[1] - a[1] * b[3],
       a[1] * b[2] - a[2] * b[1] >>

\* length() == 0 holds exactly for the zero vector (length is sqrt(x^2+y^2+z^2))
SqLength(a) == Dot(a, a)

IsZeroLength(a) == SqLength(a) = 0

\* the element of a one-element set
The(S) == CHOOSE x \in S : TRUE

Abs(x) == IF x < 0 THEN -x ELSE x

Min2(a, b) == IF a < b THEN a ELSE b

Max2(a, b) == IF a > b THEN a ELSE b

RECURSIVE Gcd(_, _)
Gcd(a, b) == IF b = 0 THEN a ELSE The({ Gcd(b, r) : r \in { a % b } })

\* Normal<T>(v): the unit vector of v, represented by its primitive direction.
Normalize(v) ==
    The({ The({ IF g = 0 THEN w
                ELSE << IF w[1] < 0 THEN -((-w[1]) \div g) ELSE w[1] \div g,
                        IF w[2] < 0 THEN -((-w[2]) \div g) ELSE w[2] \div g,
                        IF w[3] < 0 THEN -((-w[3]) \div g) ELSE w[3] \div g >> :
                    g \in { The({ Gcd(h, Abs(w[3])) :
                                      h \in { Gcd(Abs(w[1]), Abs(w[2])) } }) } }) :
              w \in { v } })

\* ------------------------------------------------------------ BoundingBox
\* A box before any expansion: min = +max float, max = lowest float.
Inf == 1000000

EmptyBb == [min |-> <<Inf, Inf, Inf>>, max |-> <<-Inf, -Inf, -Inf>>]

ExpandPoint(bb, p) ==
    [min |-> << Min2(bb.min[1], p[1]), Min2(bb.min[2], p[2]), Min2(bb.min[3], p[3]) >>,
     max |-> << Max2(bb.max[1], p[1]), Max2(bb.max[2], p[2]), Max2(bb.max[3], p[3]) >>]

\* expand(bb): expands by the minimum and the maximum corner of the other box
ExpandBb(bb, other) ==
    [min |-> << Min2(bb.min[1], other.min[1]), Min2(bb.min[2], other.min[2]),
                Min2(bb.min[3], other.min[3]) >>,
     max |-> << Max2(bb.max[1], other.max[1]), Max2(bb.max[2], other.max[2]),
                Max2(bb.max[3], other.max[3]) >>]

BbIsValid(bb) ==
    /\ bb.min[1] <= bb.max[1]
    /\ bb.min[2] <= bb.max[2]
    /\ bb.min[3] <= bb.max[3]

BbSize(bb, axis) == Abs(bb.max[axis] - bb.min[axis])

\* twice the centroid coordinate (the centroid is the middle of min and max)
BbCentroid2(bb, axis) == bb.min[axis] + bb.max[axis]

\* xSize*ySize + ySize*zSize + zSize*xSize
Surface(bb) ==
    The({ xSize * ySize + ySize * zSize + zSize * xSize :
              xSize \in { BbSize(bb, 1) }, ySize \in { BbSize(bb, 2) },
              zSize \in { BbSize(bb, 3) } })

\* ------------------------------------------------------------- input mesh
\* The master mesh: face k (1-based) owns the vertices 3(k-1), 3(k-1)+1 and
\* 3(k-1)+2.  The faces lie in groups of three along the direction dir, the
\* second group nearest to the origin (so the faces are not given in spatial
\* order and the partition has to move work items); every face with
\* k % 4 = 2 is malformed, alternately with a repeated vertex index and
\* with three collinear vertices.  Along <<1, 1, 0>> the x and the y axis
\* sort the faces alike, so that candidates on two axes have equal cost.
Directions == { <<1, 0, 0>>, <<1, 1, 0>>, <<0, 0, -1>>, <<0, 0, 0>> }

GroupPos(k) ==
    LET g == (k - 1) \div 3
    IN  2 * k + (IF g = 1 THEN 0 ELSE 200 + 15 * g)

FaceOrigin(k, dir) == VScale(GroupPos(k), dir)

IsCollinearFace(k) == k % 8 = 6

IsRepeatedFace(k) == k % 8 = 2

MasterVertex(v, dir) ==
    LET k == (v \div 3) + 1
        c == v % 3
        o == FaceOrigin(k, dir)
    IN  IF c = 0 THEN o
        ELSE IF c = 1 THEN VAdd(o, <<1, 0, 0>>)
        ELSE IF IsCollinearFace(k) THEN VAdd(o, <<2, 0, 0>>)
        ELSE VAdd(o, <<0, 1 + (k % 2), 1>>)

MasterVertices(dir) == [v \in 1..(3 * MaxFaces) |-> MasterVertex(v - 1, dir)]

MasterFace(k) ==
    IF IsRepeatedFace(k)
    THEN << 3 * (k - 1), 3 * (k - 1), 3 * (k - 1) + 1 >>
    ELSE << 3 * (k - 1), 3 * (k - 1) + 1, 3 * (k - 1) + 2 >>

RECURSIVE SubSeqOf(_, _)
\* the faces of the master mesh selected by the set S, in master order
SubSeqOf(S, k) ==
    IF k > MaxFaces THEN << >>
    ELSE IF k \in S THEN << MasterFace(k) >> \o SubSeqOf(S, k + 1)
    ELSE SubSeqOf(S, k + 1)

InputFaces == { SubSeqOf(S, 1) : S \in SUBSET (1..MaxFaces) }

\* ------------------------------------------------------------------ state
VARIABLES
    vertices,       \* input: the vertex coordinates, one point per vertex
    faces,          \* input: the faces, three vertex indices per face
    pc,             \* position of the constructor BVHTree::BVHTree
    i,              \* number of faces the preprocessing loop has consumed
    m_triangles,    \* the triangle store
    work,           \* the AABB work list (partitioned in place by the build)
    outerBb,        \* running box over all retained faces
    calls,          \* the invocations of buildTreeRecursive, by call id
    nodes,          \* the heap of BVH nodes, by the id of the call that made it
    out,            \* the local 'out' of buildTree (Null until the root call returns)
    m_root,         \* the root node pointer
    m_depth,        \* the shared maximum-depth counter
    crit,           \* holder of the critical section bvh_depth_update (Null: free)
    m_limits,
    m_indexesOrTrilists,
    m_triIndexList,
    m_trianglesIntersectionData

vars ==
    << vertices, faces, pc, i, m_triangles, work, outerBb, calls, nodes, out,
       m_root, m_depth, crit, m_limits, m_indexesOrTrilists, m_triIndexList,
       m_trianglesIntersectionData >>

inputVars == << vertices, faces >>

buildVars == << calls, nodes, out, m_depth, crit >>

flatVars ==
    << m_limits, m_indexesOrTrilists, m_triIndexList, m_trianglesIntersectionData >>

\* --------------------------------------------------------- preprocessing
\* vertices[faces[i]*3 .. faces[i]*3+2]: the point of a (0-based) vertex index
Point(vs, idx) == vs[idx + 1]

FacePoints(vs, face) ==
    << Point(vs, face[1]), Point(vs, face[2]), Point(vs, face[3]) >>

\* the three edge cross products cross1, cross2, cross3
EdgeCrosses(pts) ==
    LET vc1 == VSub(pts[2], pts[1])
        vc2 == VSub(pts[3], pts[2])
        vc3 == VSub(pts[1], pts[3])
    IN  << Cross(vc1, vc2), Cross(vc2, vc3), Cross(vc3, vc1) >>

\* a faulty variant of IsMalformed that only looks for coinciding corners
IsMalformedCoinciding(pts) ==
    pts[1] = pts[2] \/ pts[2] = pts[3] \/ pts[3] = pts[1]

\* "skip malformed faces"
IsMalformed(pts) ==
    \E c \in { EdgeCrosses(pts) } :
        IsZeroLength(c[1]) \/ IsZeroLength(c[2]) \/ IsZeroLength(c[3])

FaceBb(pts) ==
    The({ ExpandPoint(two, pts[3]) :
              two \in { ExpandPoint(one, pts[2]) :
                  one \in { ExpandPoint(EmptyBb, pts[1]) } } })

\* "pick best normal": the longest of the three unit normals, the first on ties
BestNormal(pts) ==
    LET c == EdgeCrosses(pts) IN
    The({ LET best2 == IF SqLength(normal2) > SqLength(normal1) THEN normal2 ELSE normal1
          IN  IF SqLength(normal3) > SqLength(best2) THEN normal3 ELSE best2 :
              normal1 \in { Normalize(c[1]) }, normal2 \in { Normalize(c[2]) },
              normal3 \in { Normalize(c[3]) } } )

\* the Triangle built from a retained face (center is kept tripled)
MakeTriangle(face, pts) ==
    LET vc1 == VSub(pts[2], pts[1])
        vc2 == VSub(pts[3], pts[2])
        vc3 == VSub(pts[1], pts[3])
    IN  The({ The({ [ bb |-> FaceBb(pts),
                      center3 |-> VAdd(VAdd(pts[1], pts[2]), pts[3]),
                      idx1 |-> face[1], idx2 |-> face[2], idx3 |-> face[3],
                      normal |-> normal, d |-> Dot(normal, pts[1]),
                      e1 |-> e1, d1 |-> Dot(e1, pts[1]),
                      e2 |-> e2, d2 |-> Dot(e2, pts[2]),
                      e3 |-> e3, d3 |-> Dot(e3, pts[3]) ] :
                        e1 \in { Normalize(Cross(normal, vc1)) },
                        e2 \in { Normalize(Cross(normal, vc2)) },
                        e3 \in { Normalize(Cross(normal, vc3)) } }) :
                  normal \in { BestNormal(pts) } })

\* a faulty variant of NewTriangleIndex that takes the size after the push
NewTriangleIndexAfterPush(triangles) == Len(triangles) + 1

\* the index a retained face gets: aabb.triangle = m_triangles.size()
NewTriangleIndex(triangles) == Len(triangles)

MakeAabb(triangles, pts) ==
    [ bb |-> FaceBb(pts), triangle |-> NewTriangleIndex(triangles) ]

\* a faulty variant of OuterBbAfter that assigns instead of expanding
OuterBbAssigned(outer, faceBb) == faceBb

\* outerBb.expand(faceBb)
OuterBbAfter(outer, faceBb) == ExpandBb(outer, faceBb)

Init ==
    /\ \E dir \in Directions : vertices = MasterVertices(dir)
    /\ faces \in InputFaces
    /\ pc = "preprocess"
    /\ i = 0
    /\ m_triangles = << >>
    /\ work = << >>
    /\ outerBb = EmptyBb
    /\ calls = << >>
    /\ nodes = << >>
    /\ out = Null
    /\ m_root = Null
    /\ m_depth = 0
    /\ crit = Null
    /\ m_limits = << >>
    /\ m_indexesOrTrilists = << >>
    /\ m_triIndexList = << >>
    /\ m_trianglesIntersectionData = << >>

\* one iteration of the loop over the faces that hits 'continue'
SkipFace ==
    /\ pc = "preprocess"
    /\ i < Len(faces)
    /\ \E pts \in { FacePoints(vertices, faces[i + 1]) } : IsMalformed(pts)
    /\ i' = i + 1
    /\ UNCHANGED << inputVars, pc, m_triangles, work, outerBb, buildVars, m_root, flatVars >>

\* one iteration of the loop over the faces that retains the face
RetainFace ==
    /\ pc = "preprocess"
    /\ i < Len(faces)
    /\ \E face \in { faces[i + 1] } :
       \E pts \in { FacePoints(vertices, face) } :
           /\ ~IsMalformed(pts)
           /\ m_triangles' = Append(m_triangles, MakeTriangle(face, pts))
           /\ outerBb' = OuterBbAfter(outerBb, FaceBb(pts))
           /\ work' = Append(work, MakeAabb(m_triangles, pts))
    /\ i' = i + 1
    /\ UNCHANGED << inputVars, pc, buildVars, m_root, flatVars >>

\* ------------------------------------------------------ buildTreeRecursive
\* the items of the slice [begin, end) of the work list (0-based offsets)
Slice(w, begin, end) == SubSeq(w, begin + 1, end)

RECURSIVE UnionBb(_, _, _)
\* "Determine the bounding box of this node": expand by items[n..]
UnionBb(items, n, bb) ==
    IF n > Len(items) THEN bb
    ELSE The({ UnionBb(items, n + 1, expanded) :
                   expanded \in { ExpandBb(bb, items[n].bb) } })

SliceBb(items) == UnionBb(items, 1, EmptyBb)

RECURSIVE SliceTriangles(_, _)
\* leaf->triangles: the triangle indices of the slice, in slice order
SliceTriangles(items, n) ==
    IF n > Len(items) THEN << >>
    ELSE << items[n].triangle >> \o SliceTriangles(items, n + 1)

\* a faulty variant of IsSmall with '<' in place of '<='
IsSmallStrict(begin, end) == end - begin < LeafSize

\* "terminate recursion, if work size is small enough"
IsSmall(begin, end) == end - begin <= LeafSize

\* fabs(stop - start) < 1e-4, axis in 0..2
AxisTooShort(bb, axis) == 10000 * Abs(bb.max[axis + 1] - bb.min[axis + 1]) < 1

Clamp(x, lo, hi) == IF x < lo THEN lo ELSE IF x > hi THEN hi ELSE x

\* clamp(floor((value - start) * BUCKETS / range), 0, BUCKETS - 1), where value
\* is the centroid of the item's box on the axis, start the minimum of the
\* node's box and range its extent (all scaled by 2 here)
BucketIndex(itemBb, axis, bb) ==
    LET value2 == BbCentroid2(itemBb, axis + 1)
        start2 == 2 * bb.min[axis + 1]
        range2 == 2 * (bb.max[axis + 1] - bb.min[axis + 1])
    IN  Clamp(((value2 - start2) * BUCKETS) \div range2, 0, BUCKETS - 1)

EmptyBuckets == [j \in 0..(BUCKETS - 1) |-> [bb |-> EmptyBb, count |-> 0]]

RECURSIVE SortIntoBuckets(_, _, _, _, _)
\* "Sort bbs into buckets": buckets[index].expand(v->bb); counts[index]++
SortIntoBuckets(items, n, axis, bb, acc) ==
    IF n > Len(items) THEN acc
    ELSE The({ SortIntoBuckets(items, n + 1, axis, bb, sorted) :
                   sorted \in { [acc EXCEPT ![index] =
                                     [bb |-> ExpandBb(@.bb, items[n].bb),
                                      count |-> @.count + 1]] :
                       index \in { BucketIndex(items[n].bb, axis, bb) } } })

RECURSIVE SideOfSplit(_, _, _, _)
\* the loop "for (j = lo; j < hi; j++)" over the buckets: the box and the
\* count of the valid buckets lo .. hi-1, added to acc; the iterations
\* lo .. mid-1 are followed by the iterations mid .. hi-1
SideOfSplit(buckets, lo, hi, acc) ==
    IF lo >= hi THEN acc
    ELSE IF hi = lo + 1
         THEN IF ~BbIsValid(buckets[lo].bb) THEN acc
              ELSE [bb |-> ExpandBb(acc.bb, buckets[lo].bb),
                    count |-> acc.count + buckets[lo].count]
         ELSE The({ The({ SideOfSplit(buckets, mid, hi, half) :
                              half \in { SideOfSplit(buckets, lo, mid, acc) } }) :
                        mid \in { (lo + hi) \div 2 } })

EmptySide == [bb |-> EmptyBb, count |-> 0]

LeftSide(buckets, split) == SideOfSplit(buckets, 0, split, EmptySide)

RightSide(buckets, split) == SideOfSplit(buckets, split, BUCKETS, EmptySide)

\* countLeft <= 1 || countRight <= 1 || !lBb.isValid() || !rBb.isValid()
Rejected(l, r) ==
    \/ l.count <= 1
    \/ r.count <= 1
    \/ ~BbIsValid(l.bb)
    \/ ~BbIsValid(r.bb)

TotalCost(l, r) == Surface(l.bb) * l.count + Surface(r.bb) * r.count

\* a faulty variant of IsBetter with '<=' in place of '<'
IsBetterOrEqual(totalCost, minCost) == totalCost <= minCost

\* "Check if new best split was found"
IsBetter(totalCost, minCost) == totalCost < minCost

\* the rest of an iteration, for the two sides l and r of the split
TrySides(best, l, r, axis, split) ==
    IF Rejected(l, r) THEN best
    ELSE The({ IF IsBetter(totalCost, best.minCost)
               THEN [minCost |-> totalCost, bestSplitIdx |-> split, bestAxis |-> axis]
               ELSE best :
                   totalCost \in { TotalCost(l, r) } })

\* one iteration of "Check all split positions"
TrySplit(best, buckets, axis, split) ==
    The({ TrySides(best, l, r, axis, split) :
              l \in { LeftSide(buckets, split) }, r \in { RightSide(buckets, split) } })

RECURSIVE TrySplits(_, _, _, _, _)
\* the loop "for (int i = lo; i < hi; i++)" over the split positions: the
\* iterations lo .. mid-1 followed by the iterations mid .. hi-1
TrySplits(best, buckets, axis, lo, hi) ==
    IF lo >= hi THEN best
    ELSE IF hi = lo + 1 THEN TrySplit(best, buckets, axis, lo)
    ELSE The({ The({ TrySplits(half, buckets, axis, mid, hi) :
                         half \in { TrySplits(best, buckets, axis, lo, mid) } }) :
                   mid \in { (lo + hi) \div 2 } })

\* one iteration of "try all 3 axises X = 0, Y = 1, Z = 2"
TryAxis(best, items, bb, axis) ==
    IF AxisTooShort(bb, axis) THEN best
    ELSE The({ TrySplits(best, buckets, axis, 1, BUCKETS) :
                   buckets \in { SortIntoBuckets(items, 1, axis, bb, EmptyBuckets) } })

\* the baseline: the cost of not splitting
BaseCost(items, bb) == Len(items) * Surface(bb)

\* the result of the SAH search: [minCost, bestSplitIdx, bestAxis]
BestSplit(items, bb) ==
    The({ TryAxis(afterY, items, bb, 2) :
              afterY \in { TryAxis(afterX, items, bb, 1) :
                  afterX \in { TryAxis([minCost |-> BaseCost(items, bb),
                                        bestSplitIdx |-> -1, bestAxis |-> -1],
                                       items, bb, 0) } } })

\* a faulty variant of Pred with '<=' in place of '<'
PredInclusive(itemBb, best, bb) ==
    BucketIndex(itemBb, best.bestAxis, bb) <= best.bestSplitIdx

\* the predicate of the partition: index < bestSplitIdx on the best axis
Pred(itemBb, best, bb) == BucketIndex(itemBb, best.bestAxis, bb) < best.bestSplitIdx

RECURSIVE SkipForward(_, _, _, _, _)
SkipForward(w, first, last, best, bb) ==
    IF first = last THEN first
    ELSE IF Pred(w[first].bb, best, bb) THEN SkipForward(w, first + 1, last, best, bb)
    ELSE first

RECURSIVE SkipBackward(_, _, _, _, _)
SkipBackward(w, first, last, best, bb) ==
    IF first = last THEN last
    ELSE IF ~Pred(w[last].bb, best, bb) THEN SkipBackward(w, first, last - 1, best, bb)
    ELSE last

\* a faulty variant of Swap that copies one item over the other
SwapByCopy(w, a, b) == [w EXCEPT ![a] = w[b]]

Swap(w, a, b) == [w EXCEPT ![a] = w[b], ![b] = w[a]]

RECURSIVE Partition(_, _, _, _, _)
\* std::partition on [first, last) (1-based positions, last one past the end):
\* the array after the in-place partition and the partition point
Partition(w, first, last, best, bb) ==
    The({ IF f = last THEN [w |-> w, point |-> f]
          ELSE The({ IF f = l THEN [w |-> w, point |-> f]
                     ELSE The({ Partition(swapped, f + 1, l, best, bb) :
                                    swapped \in { Swap(w, f, l) } }) :
                         l \in { SkipBackward(w, f, last - 1, best, bb) } }) :
              f \in { SkipForward(w, first, last, best, bb) } })

\* the in-place partition of the slice [begin, end) of the work list
PartitionSlice(w, begin, end, best, bb) ==
    The({ [w |-> r.w, point |-> r.point - 1] :
              r \in { Partition(w, begin + 1, end + 1, best, bb) } })

\* ------------------------------------------------ the fork-join build steps
Root == 1

LeftOf(c) == 2 * c

RightOf(c) == 2 * c + 1

ParentOf(c) == c \div 2

IsLeftChild(c) == c # Root /\ c % 2 = 0

NewCall(begin, end, depth) ==
    [pc |-> "start", begin |-> begin, end |-> end, depth |-> depth, seen |-> 0]

MakeLeaf(items) ==
    [isLeaf |-> TRUE, bb |-> SliceBb(items), triangles |-> SliceTriangles(items, 1),
     left |-> Null, right |-> Null]

MakeInner(items) ==
    [isLeaf |-> FALSE, bb |-> SliceBb(items), triangles |-> << >>,
     left |-> Null, right |-> Null]

\* a faulty variant of LeftCall whose slice ends one item late, inside the
\* slice of the right call
LeftCallOverlapping(c, point) == NewCall(c.begin, point + 1, c.depth + 1)

\* the slice the spawned left task gets: [work_begin, partition_point)
LeftCall(c, point) == NewCall(c.begin, point, c.depth + 1)

\* a faulty variant of RightCall whose slice starts one item late
RightCallLate(c, point) == NewCall(point + 1, c.end, c.depth + 1)

\* a faulty variant of RightCall whose slice starts one item early, inside
\* the slice of the left task
RightCallOverlapping(c, point) == NewCall(point - 1, c.end, c.depth + 1)

\* the slice the inline right call gets: [partition_point, work_end)
RightCall(c, point) == NewCall(point, c.end, c.depth + 1)

\* the call's result is stored where its caller put it: inner->left,
\* inner->right, or the local 'out' of buildTree
StoreResult(c, heap) ==
    IF c = Root THEN heap
    ELSE IF IsLeftChild(c) THEN [heap EXCEPT ![ParentOf(c)].left = c]
    ELSE [heap EXCEPT ![ParentOf(c)].right = c]

\* m_depth = std::max(m_depth, depth)
MaxDepth(seen, depth) == IF seen < depth THEN depth ELSE seen

\* a faulty variant of CanEnterCritical with the test inverted: the
\* critical section is never granted
CanEnterHeld(holder) == holder # Null

\* a faulty variant of CanEnterCritical: the update without mutual exclusion
CanEnterUnguarded(holder) == TRUE

\* entry to "#pragma omp critical(bvh_depth_update)": one holder at a time
CanEnterCritical(holder) == holder = Null

\* a faulty variant of Joined without the taskwait: only the inline right
\* call has returned
JoinedRightOnly(cs, c) == cs[RightOf(c)].pc = "done"

\* "#pragma omp taskwait" after the inline right call has returned
Joined(cs, c) == cs[LeftOf(c)].pc = "done" /\ cs[RightOf(c)].pc = "done"

\* end of the preprocessing loop: "#pragma omp parallel / single nowait"
\* starts the top-level call on the whole work list
StartBuild ==
    /\ pc = "preprocess"
    /\ i = Len(faces)
    /\ pc' = "build"
    /\ calls' = (Root :> NewCall(0, Len(work), 0))
    /\ UNCHANGED << inputVars, i, m_triangles, work, outerBb, nodes, out, m_root,
                    m_depth, crit, flatVars >>

\* a call finds its slice small enough: it makes the leaf
BuildSmallLeaf(c) ==
    /\ pc = "build"
    /\ c \in DOMAIN calls
    /\ calls[c].pc = "start"
    /\ IsSmall(calls[c].begin, calls[c].end)
    /\ nodes' = (c :> MakeLeaf(Slice(work, calls[c].begin, calls[c].end))) @@ nodes
    /\ calls' = [calls EXCEPT ![c].pc = "leaf"]
    /\ UNCHANGED << inputVars, pc, i, m_triangles, work, outerBb, out, m_root,
                    m_depth, crit, flatVars >>

\* a call on a larger slice finds no good split: it makes the leaf
BuildNoSplitLeaf(c) ==
    /\ pc = "build"
    /\ c \in DOMAIN calls
    /\ calls[c].pc = "start"
    /\ ~IsSmall(calls[c].begin, calls[c].end)
    /\ \E items \in { Slice(work, calls[c].begin, calls[c].end) } :
       \E bb \in { SliceBb(items) } :
          /\ BestSplit(items, bb).bestAxis = -1
          /\ nodes' = (c :> MakeLeaf(items)) @@ nodes
    /\ calls' = [calls EXCEPT ![c].pc = "leaf"]
    /\ UNCHANGED << inputVars, pc, i, m_triangles, work, outerBb, out, m_root,
                    m_depth, crit, flatVars >>

\* a call adopts a split: it partitions its slice in place, makes the inner
\* node, spawns the left task and calls the right side inline
BuildSplit(c) ==
    /\ pc = "build"
    /\ c \in DOMAIN calls
    /\ calls[c].pc = "start"
    /\ ~IsSmall(calls[c].begin, calls[c].end)
    /\ \E items \in { Slice(work, calls[c].begin, calls[c].end) } :
       \E bb \in { SliceBb(items) } :
       \E best \in { BestSplit(items, bb) } :
          /\ best.bestAxis # -1
          /\ \E part \in { PartitionSlice(work, calls[c].begin, calls[c].end, best, bb) } :
                /\ work' = part.w
                /\ nodes' = (c :> MakeInner(items)) @@ nodes
                /\ calls' = (LeftOf(c) :> LeftCall(calls[c], part.point))
                             @@ (RightOf(c) :> RightCall(calls[c], part.point))
                             @@ [calls EXCEPT ![c].pc = "waiting"]
    /\ UNCHANGED << inputVars, pc, i, m_triangles, outerBb, out, m_root,
                    m_depth, crit, flatVars >>

\* a leaf-making call enters the critical section and reads m_depth
EnterCritical(c) ==
    /\ pc = "build"
    /\ c \in DOMAIN calls
    /\ calls[c].pc = "leaf"
    /\ CanEnterCritical(crit)
    /\ crit' = c
    /\ calls' = [calls EXCEPT ![c].pc = "critical", ![c].seen = m_depth]
    /\ UNCHANGED << inputVars, pc, i, m_triangles, work, outerBb, nodes, out,
                    m_root, m_depth, flatVars >>

\* it writes the maximum, leaves the critical section and returns the leaf
LeaveCritical(c) ==
    /\ pc = "build"
    /\ c \in DOMAIN calls
    /\ calls[c].pc = "critical"
    /\ m_depth' = MaxDepth(calls[c].seen, calls[c].depth)
    /\ crit' = IF crit = c THEN Null ELSE crit
    /\ calls' = [calls EXCEPT ![c].pc = "done", ![c].seen = 0]
    /\ nodes' = StoreResult(c, nodes)
    /\ out' = IF c = Root THEN c ELSE out
    /\ UNCHANGED << inputVars, pc, i, m_triangles, work, outerBb, m_root, flatVars >>

\* the right call has returned and the taskwait is over: return the inner node
Join(c) ==
    /\ pc = "build"
    /\ c \in DOMAIN calls
    /\ calls[c].pc = "waiting"
    /\ Joined(calls, c)
    /\ calls' = [calls EXCEPT ![c].pc = "done"]
    /\ nodes' = StoreResult(c, nodes)
    /\ out' = IF c = Root THEN c ELSE out
    /\ UNCHANGED << inputVars, pc, i, m_triangles, work, outerBb, m_root,
                    m_depth, crit, flatVars >>

\* a faulty variant of ParallelRegionEnded in which 'nowait' lets the thread
\* of buildTree go on as soon as the top-level call has been started
ParallelRegionLeftEarly(o, cs) == Root \in DOMAIN cs

\* the end of "#pragma omp parallel": the single block has assigned out and
\* the barrier at the end of the region has seen every task finish
ParallelRegionEnded(o, cs) ==
    /\ o # Null
    /\ \A c \in DOMAIN cs : cs[c].pc = "done"

\* the parallel region ends when every task has finished; then
\* out->bb = outerBb; return out;  and the constructor stores it in m_root
EndBuild ==
    /\ pc = "build"
    /\ ParallelRegionEnded(out, calls)
    /\ nodes' = [nodes EXCEPT ![out].bb = outerBb]
    /\ m_root' = out
    /\ pc' = "built"
    /\ UNCHANGED << inputVars, i, m_triangles, work, outerBb, calls, out,
                    m_depth, crit, flatVars >>

\* -------------------------------------------------------------- flattening
\* a faulty variant of NodeLimits that pushes the minimum corner, then the
\* maximum corner
NodeLimitsCorners(bb) ==
    << bb.min[1], bb.min[2], bb.min[3], bb.max[1], bb.max[2], bb.max[3] >>

\* the six limits of a node: xmin, xmax, ymin, ymax, zmin, zmax
NodeLimits(bb) ==
    << bb.min[1], bb.max[1], bb.min[2], bb.max[2], bb.min[3], bb.max[3] >>

\* A 32-bit word is the pair << top bit, the low 31 bits >>; every count,
\* node index and offset of the model is below 2^31.
Word(x) == << 0, x >>

\* the word 0x80000000
LeafFlag == << 1, 0 >>

\* a | b for a word a of which only the top bit may be set
OrWord(a, b) == << Max2(a[1], b[1]), b[2] >>

\* 0x80000000 | count
LeafWord(count) == OrWord(LeafFlag, Word(count))

\* the four words pushed for an inner node, before the child indices are fixed
InnerRecord == << Word(0), Word(0), Word(0), Word(0) >>

\* a faulty variant of LeafRecord that forgets the start index
LeafRecordNoStart(count, start) == << LeafWord(count), Word(0), Word(0), Word(0) >>

\* the four words of a leaf: flagged count, two dummies, start index
LeafRecord(count, start) == << LeafWord(count), Word(0), Word(0), Word(start) >>

\* uint32_t idxLeft = ++idxBoxes (and likewise idxRight)
NextIdx(idxBoxes) == idxBoxes + 1

\* a faulty variant of FixIndices that writes the two indices the wrong way round
FixIndicesSwapped(iot, pos, idxLeft, idxRight) ==
    [iot EXCEPT ![pos + 1] = Word(idxRight), ![pos + 2] = Word(idxLeft)]

\* "fix box indices": words 1 and 2 of the record that starts at 0-based pos - 1
FixIndices(iot, pos, idxLeft, idxRight) ==
    [iot EXCEPT ![pos + 1] = Word(idxLeft), ![pos + 2] = Word(idxRight)]

RECURSIVE createCFTreeRecursive(_, _, _)
\* st = [limits, iot, tri, idxBoxes]: the three arrays and the shared counter
createCFTreeRecursive(heap, currentNode, st) ==
    LET node == heap[currentNode]
        limits1 == st.limits \o NodeLimits(node.bb)
    IN  IF ~node.isLeaf
        THEN LET pos == Len(st.iot) + 1
                 idxLeft == NextIdx(st.idxBoxes)
                 afterLeft ==
                     createCFTreeRecursive(heap, node.left,
                         [limits |-> limits1, iot |-> st.iot \o InnerRecord,
                          tri |-> st.tri, idxBoxes |-> idxLeft])
                 idxRight == NextIdx(afterLeft.idxBoxes)
                 afterRight ==
                     createCFTreeRecursive(heap, node.right,
                         [afterLeft EXCEPT !.idxBoxes = idxRight])
             IN  [afterRight EXCEPT !.iot = FixIndices(@, pos, idxLeft, idxRight)]
        ELSE [limits |-> limits1,
              iot |-> st.iot \o LeafRecord(Len(node.triangles), Len(st.tri)),
              tri |-> st.tri \o node.triangles,
              idxBoxes |-> st.idxBoxes]

\* createCFTree up to the call of convertTrianglesIntersectionData: the tree
\* is moved out of m_root and destroyed node by node while it is flattened
createCFTree ==
    /\ pc = "built"
    /\ LET st == createCFTreeRecursive(nodes, m_root,
                     [limits |-> m_limits, iot |-> m_indexesOrTrilists,
                      tri |-> m_triIndexList, idxBoxes |-> 0])
       IN  /\ m_limits' = st.limits
           /\ m_indexesOrTrilists' = st.iot
           /\ m_triIndexList' = st.tri
    /\ m_root' = Null
    /\ nodes' = << >>
    /\ pc' = "flattened"
    /\ UNCHANGED << inputVars, i, m_triangles, work, outerBb, calls, out, m_depth,
                    crit, m_trianglesIntersectionData >>

\* the 16 values of one triangle
TriangleRecord(t) ==
    << t.normal[1], t.normal[2], t.normal[3], t.d,
       t.e1[1], t.e1[2], t.e1[3], t.d1,
       t.e2[1], t.e2[2], t.e2[3], t.d2,
       t.e3[1], t.e3[2], t.e3[3], t.d3 >>

RECURSIVE ConvertFrom(_, _, _)
\* the loop "for (auto const& triangle: m_triangles)"
ConvertFrom(triangles, n, data) ==
    IF n > Len(triangles) THEN data
    ELSE ConvertFrom(triangles, n + 1, data \o TriangleRecord(triangles[n]))

convertTrianglesIntersectionData ==
    /\ pc = "flattened"
    /\ m_trianglesIntersectionData' =
           ConvertFrom(m_triangles, 1, m_trianglesIntersectionData)
    /\ pc' = "done"
    /\ UNCHANGED << inputVars, i, m_triangles, work, outerBb, buildVars, m_root,
                    m_limits, m_indexesOrTrilists, m_triIndexList >>

getMaxDepth == m_depth

\* ---------------------------------------------------------- specification
CallIds == 1..(2 * MaxFaces)

Next ==
    \/ SkipFace
    \/ RetainFace
    \/ StartBuild
    \/ \E c \in CallIds : BuildSmallLeaf(c)
    \/ \E c \in CallIds : BuildNoSplitLeaf(c)
    \/ \E c \in CallIds : BuildSplit(c)
    \/ \E c \in CallIds : EnterCritical(c)
    \/ \E c \in CallIds : LeaveCritical(c)
    \/ \E c \in CallIds : Join(c)
    \/ EndBuild
    \/ createCFTree
    \/ convertTrianglesIntersectionData

Spec == Init /\ [][Next]_vars

\* The program goes on while some step is possible: the constructing thread
\* runs its loops, and the OpenMP runtime never leaves every thread of the
\* team idle while a task can run (a spawned task is started at the latest
\* by a thread that waits at the taskwait or at the barrier that ends the
\* parallel region).
FairSpec == Spec /\ WF_vars(Next)

\* -------------------------------------------------------------- properties
\* the set of the elements of a sequence
Range(s) == { s[j] : j \in 1..Len(s) }

\* the flat arrays are complete
Flattened == pc \in {"flattened", "done"}

\* number of flat nodes
NumNodes == Len(m_indexesOrTrilists) \div 4

\* C1: after construction triIndexList is a permutation of 0..N-1, N the
\* number of triangles in the triangle store: it has N entries and every
\* index 0..N-1 occurs among them (so none is duplicated, none is missing).
C1_TriIndexListIsPermutation ==
    Flattened =>
        /\ Len(m_triIndexList) = Len(m_triangles)
        /\ Range(m_triIndexList) = 0..(Len(m_triangles) - 1)

\* C1 witness: a finished construction of a mesh with skipped faces, whose
\* tree has inner nodes and whose triIndexList is not in index order.
C1_Witness ==
    /\ pc = "done"
    /\ Len(m_triangles) < Len(faces)
    /\ Len(m_triIndexList) >= 5
    /\ NumNodes >= 5
    /\ \E j \in 1..Len(m_triIndexList) : m_triIndexList[j] # j - 1

\* word w (0..3) of the record of flat node n (0-based)
FlatWord(iot, n, w) == iot[4 * n + w + 1]

IsFlatLeaf(iot, n) == FlatWord(iot, n, 0)[1] = 1

RECURSIVE WalkFrom(_, _, _)
\* The walk a reader of the flat arrays makes from node n: the nodes in the
\* order visited and the ranges << start, count >> of the leaves met.  A
\* child index outside the array, or a walk deeper than the number of
\* nodes (a cycle), is recorded as the visit of node -1.
WalkFrom(iot, n, fuel) ==
    IF fuel = 0 \/ n < 0 \/ 4 * n + 4 > Len(iot)
    THEN [visited |-> << -1 >>, ranges |-> << >>]
    ELSE IF IsFlatLeaf(iot, n)
         THEN [visited |-> << n >>,
               ranges |-> << << FlatWord(iot, n, 3)[2], FlatWord(iot, n, 0)[2] >> >>]
         ELSE LET l == WalkFrom(iot, FlatWord(iot, n, 1)[2], fuel - 1)
                  r == WalkFrom(iot, FlatWord(iot, n, 2)[2], fuel - 1)
              IN  [visited |-> << n >> \o l.visited \o r.visited,
                   ranges |-> l.ranges \o r.ranges]

\* the ranges follow one another from offset 0 to offset total without gap
\* or overlap
Tiles(ranges, total) ==
    /\ Len(ranges) >= 1
    /\ ranges[1][1] = 0
    /\ \A k \in 1..(Len(ranges) - 1) : ranges[k + 1][1] = ranges[k][1] + ranges[k][2]
    /\ ranges[Len(ranges)][1] + ranges[Len(ranges)][2] = total

RECURSIVE Yield(_, _, _)
\* the entries of tri the walk reads, in the order it reads them
Yield(tri, ranges, k) ==
    IF k > Len(ranges) THEN << >>
    ELSE SubSeq(tri, ranges[k][1] + 1, ranges[k][1] + ranges[k][2])
             \o Yield(tri, ranges, k + 1)

\* C2: flattening round trip.  The walk from flat node 0 along word1/word2
\* of the inner records reaches every flat node exactly once; the leaf
\* ranges [word3, word3 + count) tile triIndexList contiguously in the order
\* the leaves are visited; and the walk yields every retained triangle
\* index exactly once.
C2_FlatteningRoundTrip ==
    Flattened =>
        LET w == WalkFrom(m_indexesOrTrilists, 0, NumNodes)
        IN  /\ Len(w.visited) = NumNodes
            /\ Range(w.visited) = 0..(NumNodes - 1)
            /\ Tiles(w.ranges, Len(m_triIndexList))
            /\ Len(Yield(m_triIndexList, w.ranges, 1)) = Len(m_triangles)
            /\ Range(Yield(m_triIndexList, w.ranges, 1)) = 0..(Len(m_triangles) - 1)

\* C2 witness: flat arrays of a tree with two inner nodes and three leaves,
\* the second leaf range starting where the first one ends.
C2_Witness ==
    /\ Flattened
    /\ LET w == WalkFrom(m_indexesOrTrilists, 0, NumNodes)
       IN  /\ Len(w.visited) = 5
           /\ Len(w.ranges) = 3
           /\ w.ranges[2][1] = w.ranges[1][2]
           /\ w.ranges[1][2] >= 2

\* the least and the greatest element of a non-empty set of numbers
MinOf(S) == CHOOSE x \in S : \A y \in S : x <= y

MaxOf(S) == CHOOSE x \in S : \A y \in S : x >= y

\* the union (smallest enclosing box) of a set of boxes
BoxAround(B) ==
    IF B = {} THEN EmptyBb
    ELSE [min |-> << MinOf({ b.min[1] : b \in B }), MinOf({ b.min[2] : b \in B }),
                     MinOf({ b.min[3] : b \in B }) >>,
          max |-> << MaxOf({ b.max[1] : b \in B }), MaxOf({ b.max[2] : b \in B }),
                     MaxOf({ b.max[3] : b \in B }) >>]

\* the boxes of the stored triangles with the given indices
TriangleBoxes(ts) == { m_triangles[t + 1].bb : t \in Range(ts) }

\* C3: bounding-box hierarchy.  In the tree returned by buildTree (the root
\* box already overwritten with the outer box), the box of every leaf is
\* the union of the boxes of its member triangles and the box of every
\* inner node is the union of the boxes of its two children.
C3_BoxHierarchy ==
    pc = "built" =>
        \A c \in DOMAIN nodes :
            nodes[c].bb =
                IF nodes[c].isLeaf
                THEN BoxAround(TriangleBoxes(nodes[c].triangles))
                ELSE BoxAround({ nodes[nodes[c].left].bb, nodes[nodes[c].right].bb })

\* C3 witness: a returned tree whose root is an inner node carrying the
\* outer box, with an inner child and a leaf of several triangles, built
\* from a mesh of which a face was skipped.
C3_Witness ==
    /\ pc = "built"
    /\ m_root = Root
    /\ ~nodes[Root].isLeaf
    /\ nodes[Root].bb = outerBb
    /\ ~nodes[nodes[Root].right].isLeaf
    /\ \E c \in DOMAIN nodes : nodes[c].isLeaf /\ Len(nodes[c].triangles) >= 3
    /\ Len(m_triangles) < Len(faces)

\* the flat nodes whose record is a leaf record
FlatLeaves == { n \in 0..(NumNodes - 1) : IsFlatLeaf(m_indexesOrTrilists, n) }

\* C4: a slice with zero items never occurs.  No invocation of
\* buildTreeRecursive, the initial one or a recursive one, has an empty
\* slice; every leaf of the built tree holds at least one triangle index and
\* every leaf record of indexesOrTrilists has a count of at least 1.
C4_NoEmptySlice ==
    /\ \A c \in DOMAIN calls : calls[c].begin < calls[c].end
    /\ \A c \in DOMAIN nodes : nodes[c].isLeaf => Len(nodes[c].triangles) >= 1
    /\ Flattened =>
           \A n \in FlatLeaves : FlatWord(m_indexesOrTrilists, n, 0)[2] >= 1

RECURSIVE SubtreeSize(_, _)
\* number of nodes of the subtree of the pointer tree rooted at c
SubtreeSize(heap, c) ==
    IF heap[c].isLeaf THEN 1
    ELSE 1 + SubtreeSize(heap, heap[c].left) + SubtreeSize(heap, heap[c].right)

RECURSIVE PreIndex(_, _)
\* depth-first pre-order number of node c of the pointer tree: the root has
\* number 0, a left child the number after its parent's, a right child the
\* number after the last node of its sibling's subtree
PreIndex(heap, c) ==
    IF c = Root THEN 0
    ELSE IF heap[ParentOf(c)].left = c THEN PreIndex(heap, ParentOf(c)) + 1
    ELSE PreIndex(heap, ParentOf(c)) + 1 + SubtreeSize(heap, heap[ParentOf(c)].left)

\* the step of createCFTree that flattens the tree
FlatteningStep == pc = "built" /\ pc' = "flattened"

\* C5: flat numbering is depth-first pre-order.  The flattening step puts
\* the root at flat index 0 and gives an inner node at flat index j the
\* left child j + 1 and the right child j + 1 + (number of nodes of the left
\* subtree); every stored child index is greater than its parent's index
\* and is the index of a node of both limits and indexesOrTrilists.
C5_PreOrderNumbering ==
    [][ FlatteningStep =>
          /\ m_root = Root
          /\ SubSeq(m_limits', 1, 6) = NodeLimits(nodes[Root].bb)
          /\ \A c \in DOMAIN nodes :
                ~nodes[c].isLeaf =>
                   LET j == PreIndex(nodes, c)
                       l == FlatWord(m_indexesOrTrilists', j, 1)
                       r == FlatWord(m_indexesOrTrilists', j, 2)
                   IN  /\ ~IsFlatLeaf(m_indexesOrTrilists', j)
                       /\ l = Word(j + 1)
                       /\ r = Word(j + 1 + SubtreeSize(nodes, nodes[c].left))
                       /\ l[2] > j /\ r[2] > j
                       /\ 6 * l[2] + 6 <= Len(m_limits')
                       /\ 6 * r[2] + 6 <= Len(m_limits')
                       /\ 4 * l[2] + 4 <= Len(m_indexesOrTrilists')
                       /\ 4 * r[2] + 4 <= Len(m_indexesOrTrilists')
      ]_vars

\* C5 witness: flat arrays of five nodes whose root has an inner node as its
\* left child, so that the right child of the root is four places on.
C5_Witness ==
    /\ Flattened
    /\ NumNodes = 5
    /\ ~IsFlatLeaf(m_indexesOrTrilists, 0)
    /\ ~IsFlatLeaf(m_indexesOrTrilists, 1)
    /\ FlatWord(m_indexesOrTrilists, 0, 1) = Word(1)
    /\ FlatWord(m_indexesOrTrilists, 0, 2) = Word(4)
    /\ FlatWord(m_indexesOrTrilists, 1, 2) = Word(3)

RECURSIVE TrianglesIn(_, _)
\* total number of triangle indices held by the leaves S of the pointer tree
TrianglesIn(heap, S) ==
    IF S = {} THEN 0
    ELSE LET c == CHOOSE x \in S : TRUE
         IN  Len(heap[c].triangles) + TrianglesIn(heap, S \ {c})

\* the leaves that come before pre-order number j
LeavesBefore(heap, j) ==
    { c \in DOMAIN heap : heap[c].isLeaf /\ PreIndex(heap, c) < j }

\* C6: record layout.  After the flattening step limits has 6 and
\* indexesOrTrilists has 4 entries per node, and for every node, at its flat
\* index j: limits[6j..6j+5] are xmin, xmax, ymin, ymax, zmin, zmax of its
\* box; word0 has the top bit set exactly when the node is a leaf, with the
\* triangle count in the remaining bits, and is 0 for an inner node; words
\* 1-2 are the child indices of an inner node and 0 for a leaf; word3 of a
\* leaf is the length triIndexList had before the leaf's indices were
\* appended, and the leaf's indices follow from there.
C6_RecordLayout ==
    [][ FlatteningStep =>
          /\ Len(m_limits') = 6 * SubtreeSize(nodes, Root)
          /\ Len(m_indexesOrTrilists') = 4 * SubtreeSize(nodes, Root)
          /\ \A c \in DOMAIN nodes :
                LET j == PreIndex(nodes, c)
                    node == nodes[c]
                    word0 == m_indexesOrTrilists'[4 * j + 1]
                    word1 == m_indexesOrTrilists'[4 * j + 2]
                    word2 == m_indexesOrTrilists'[4 * j + 3]
                    word3 == m_indexesOrTrilists'[4 * j + 4]
                IN  /\ m_limits'[6 * j + 1] = node.bb.min[1]
                    /\ m_limits'[6 * j + 2] = node.bb.max[1]
                    /\ m_limits'[6 * j + 3] = node.bb.min[2]
                    /\ m_limits'[6 * j + 4] = node.bb.max[2]
                    /\ m_limits'[6 * j + 5] = node.bb.min[3]
                    /\ m_limits'[6 * j + 6] = node.bb.max[3]
                    /\ (word0[1] = 1) <=> node.isLeaf
                    /\ node.isLeaf =>
                          /\ word0[2] = Len(node.triangles)
                          /\ word1 = << 0, 0 >>
                          /\ word2 = << 0, 0 >>
                          /\ word3 = << 0, TrianglesIn(nodes, LeavesBefore(nodes, j)) >>
                          /\ SubSeq(m_triIndexList', word3[2] + 1, word3[2] + word0[2])
                                = node.triangles
                    /\ ~node.isLeaf =>
                          /\ word0 = << 0, 0 >>
                          /\ word1 = << 0, PreIndex(nodes, node.left) >>
                          /\ word2 = << 0, PreIndex(nodes, node.right) >>
      ]_vars

\* C6 witness: flat arrays with a leaf record, not the first leaf, of at
\* least three triangles whose box has an extent on every axis.
C6_Witness ==
    /\ Flattened
    /\ \E n \in FlatLeaves :
          /\ FlatWord(m_indexesOrTrilists, n, 3)[2] >= 2
          /\ FlatWord(m_indexesOrTrilists, n, 0)[2] >= 3
          /\ \A a \in 0..2 : m_limits[6 * n + 2 * a + 1] < m_limits[6 * n + 2 * a + 2]

\* none of the three edge cross products of the k-th face has zero length
NoZeroCross(k) ==
    \A e \in 1..3 : EdgeCrosses(FacePoints(vertices, faces[k]))[e] # << 0, 0, 0 >>

RECURSIVE RetainedFaces(_)
\* the positions, among the first n faces, of the faces with NoZeroCross,
\* in input order
RetainedFaces(n) ==
    IF n = 0 THEN << >>
    ELSE IF NoZeroCross(n) THEN Append(RetainedFaces(n - 1), n)
    ELSE RetainedFaces(n - 1)

\* C7: degenerate-triangle tolerance.  After i faces have been processed the
\* triangle store holds exactly the faces, among those i, none of whose
\* three edge cross products has zero length, in input order; the work list
\* has one item per such face and the outer box is the union of their
\* boxes, so a skipped face adds nothing to any of them; the processing
\* goes on to the last face whatever was skipped; and
\* trianglesIntersectionData ends with 16 entries per retained face and
\* none for a skipped one.
C7_DegenerateTolerance ==
    LET kept == RetainedFaces(i)
        boxOf(k) == FaceBb(FacePoints(vertices, faces[k]))
    IN  /\ Len(m_triangles) = Len(kept)
        /\ \A j \in 1..Len(kept) :
              /\ m_triangles[j].bb = boxOf(kept[j])
              /\ << m_triangles[j].idx1, m_triangles[j].idx2, m_triangles[j].idx3 >>
                    = faces[kept[j]]
        /\ Len(work) = Len(kept)
        /\ pc = "preprocess" => \A j \in 1..Len(kept) : work[j].bb = boxOf(kept[j])
        /\ outerBb = BoxAround({ boxOf(kept[j]) : j \in 1..Len(kept) })
        /\ pc # "preprocess" => i = Len(faces)
        /\ pc = "done" =>
              Len(m_trianglesIntersectionData) = sizePerTriangle * Len(kept)

\* C7 witness: a finished construction in which the first face was skipped,
\* a face with a repeated corner and a face with three distinct collinear
\* corners were both skipped, and the last face was retained.
C7_Witness ==
    /\ pc = "done"
    /\ Len(faces) >= 4
    /\ ~NoZeroCross(1)
    /\ NoZeroCross(Len(faces))
    /\ \E k \in 1..Len(faces) : ~NoZeroCross(k) /\ faces[k][1] = faces[k][2]
    /\ \E k \in 1..Len(faces) : ~NoZeroCross(k) /\ faces[k][1] # faces[k][2]
    /\ Len(m_trianglesIntersectionData) = 16 * (Len(faces) - 2)

\* the record {normal.xyz, d, e1.xyz, d1, e2.xyz, d2, e3.xyz, d3} of the
\* k-th face of the input
RecordOfFace(k) ==
    LET t == MakeTriangle(faces[k], FacePoints(vertices, faces[k]))
    IN  << t.normal[1], t.normal[2], t.normal[3], t.d,
           t.e1[1], t.e1[2], t.e1[3], t.d1,
           t.e2[1], t.e2[2], t.e2[3], t.d2,
           t.e3[1], t.e3[2], t.e3[3], t.d3 >>

\* the 16 entries of data from (0-based) offset 16n on; << >> if there are
\* fewer
RecordAt(data, n) ==
    IF 16 * n + 16 <= Len(data) THEN SubSeq(data, 16 * n + 1, 16 * n + 16) ELSE << >>

\* the (0-based) input positions of the retained faces
RetainedPositions == { RetainedFaces(i)[j] - 1 : j \in 1..Len(RetainedFaces(i)) }

\* C8 as stated: trianglesIntersectionData is indexed by original triangle
\* index.  The record of the face at (0-based) input position k is stored
\* at offsets 16k..16k+15, and every index stored in a work item, a leaf and
\* triIndexList is the input position of its face.
C8_IndexedByInputPosition ==
    /\ \A w \in 1..Len(work) : work[w].triangle \in RetainedPositions
    /\ \A c \in DOMAIN nodes : Range(nodes[c].triangles) \subseteq RetainedPositions
    /\ Flattened => Range(m_triIndexList) = RetainedPositions
    /\ pc = "done" =>
          \A k \in RetainedPositions :
              RecordAt(m_trianglesIntersectionData, k) = RecordOfFace(k + 1)

\* C8 amended: trianglesIntersectionData is indexed by position in the
\* triangle store.  The record of the j-th retained face (j counted from 0
\* over the retained faces only, in input order) is stored at offsets
\* 16j..16j+15, there is no other record, and every index stored in a work
\* item, a leaf and triIndexList is such a store position j; the work item
\* made for the j-th retained face carries j.
C8_IndexedByStorePosition ==
    LET kept == RetainedFaces(i)
        stored == 0..(Len(kept) - 1)
    IN  /\ pc = "preprocess" => \A j \in 1..Len(work) : work[j].triangle = j - 1
        /\ { work[w].triangle : w \in 1..Len(work) } = stored
        /\ \A c \in DOMAIN nodes : Range(nodes[c].triangles) \subseteq stored
        /\ Flattened => Range(m_triIndexList) = stored
        /\ pc = "done" =>
              /\ Len(m_trianglesIntersectionData) = 16 * Len(kept)
              /\ \A j \in 1..Len(kept) :
                    RecordAt(m_trianglesIntersectionData, j - 1) = RecordOfFace(kept[j])

\* C8 witness: a finished construction in which the first face of the input
\* was skipped and the record of the second face is the first record.
C8_Witness ==
    /\ pc = "done"
    /\ Len(faces) >= 5
    /\ ~NoZeroCross(1)
    /\ NoZeroCross(2)
    /\ RecordAt(m_trianglesIntersectionData, 0) = RecordOfFace(2)
    /\ RecordAt(m_trianglesIntersectionData, 1) # RecordOfFace(2)
    /\ NumNodes >= 3

RECURSIVE WorkOf(_, _)
\* the work items of the first n stored triangles, in store order
WorkOf(triangles, n) ==
    IF n = 0 THEN << >>
    ELSE Append(WorkOf(triangles, n - 1),
                [bb |-> triangles[n].bb, triangle |-> n - 1])

\* the work list at the end of preprocessing: one item per stored triangle
InitialWork == WorkOf(m_triangles, Len(m_triangles))

RECURSIVE SequentialBuild(_, _, _)
\* The build run by one thread that finishes the left call before it starts
\* the right one: the work list and the nodes after call c (a record of
\* NewCall) with id n has run on the work list w.
SequentialBuild(w, c, n) ==
    IF IsSmall(c.begin, c.end)
    THEN [w |-> w, heap |-> (n :> MakeLeaf(Slice(w, c.begin, c.end)))]
    ELSE The({ IF best.bestAxis = -1
               THEN [w |-> w, heap |-> (n :> MakeLeaf(Slice(w, c.begin, c.end)))]
               ELSE The({ The({ The({ [w |-> r.w,
                                       heap |-> (n :> [MakeInner(Slice(w, c.begin, c.end))
                                                          EXCEPT !.left = LeftOf(n),
                                                                 !.right = RightOf(n)])
                                                @@ l.heap @@ r.heap] :
                                      r \in { SequentialBuild(l.w, RightCall(c, part.point),
                                                              RightOf(n)) } }) :
                                l \in { SequentialBuild(part.w, LeftCall(c, part.point),
                                                        LeftOf(n)) } }) :
                          part \in { PartitionSlice(w, c.begin, c.end, best,
                                                    SliceBb(Slice(w, c.begin, c.end))) } }) :
               best \in { BestSplit(Slice(w, c.begin, c.end),
                                    SliceBb(Slice(w, c.begin, c.end))) } })

\* the tree buildTree returns when the build is run sequentially
SequentialTree ==
    [SequentialBuild(InitialWork, NewCall(0, Len(InitialWork), 0), Root).heap
        EXCEPT ![Root].bb = outerBb]

\* the flat arrays of the sequentially built tree
SequentialArrays ==
    createCFTreeRecursive(SequentialTree, Root,
        [limits |-> << >>, iot |-> << >>, tri |-> << >>, idxBoxes |-> 0])

\* C9: schedule-independent determinism.  Whatever the interleaving of the
\* spawned left-subtree tasks and the inline right-subtree builds, the tree
\* returned by buildTree (shape, boxes, triangles of every leaf) is the tree
\* the one-thread build of the same input returns, and limits,
\* indexesOrTrilists and triIndexList are the arrays of that tree: a function
\* of the input alone.
C9_ScheduleIndependent ==
    /\ pc = "built" => nodes = SequentialTree
    /\ pc = "flattened" =>
          \A a \in { SequentialArrays } :
              /\ m_limits = a.limits
              /\ m_indexesOrTrilists = a.iot
              /\ m_triIndexList = a.tri

\* C9 witness: during a build, two calls on different slices are both yet to
\* run while another one has already made its node: the tasks interleave.
C9_Witness ==
    /\ pc = "build"
    /\ \E c \in DOMAIN calls, d \in DOMAIN calls, e \in DOMAIN calls :
          /\ c # d
          /\ calls[c].pc = "done"
          /\ calls[d].pc = "start"
          /\ calls[e].pc = "waiting" /\ e # Root
          /\ ParentOf(c) = Root
          /\ ParentOf(d) = e

RECURSIVE DeepestLeaf(_, _)
\* depth of the deepest leaf below node c of the pointer tree, c at depth 0
DeepestLeaf(heap, c) ==
    IF heap[c].isLeaf THEN 0
    ELSE 1 + Max2(DeepestLeaf(heap, heap[c].left), DeepestLeaf(heap, heap[c].right))

RECURSIVE DeepestFlatLeaf(_, _)
\* the same, read from the flat arrays
DeepestFlatLeaf(iot, n) ==
    IF IsFlatLeaf(iot, n) THEN 0
    ELSE 1 + Max2(DeepestFlatLeaf(iot, FlatWord(iot, n, 1)[2]),
                  DeepestFlatLeaf(iot, FlatWord(iot, n, 2)[2]))

\* C10: no lost update on the shared depth counter.  Under every
\* interleaving of the leaf creations, the value getMaxDepth returns after
\* the build is the depth of the deepest leaf of the built tree (the root at
\* depth 0), and no step ever decreases the counter.
C10_NoLostDepthUpdate ==
    /\ [](/\ pc = "built" => getMaxDepth = DeepestLeaf(nodes, m_root)
          /\ Flattened => getMaxDepth = DeepestFlatLeaf(m_indexesOrTrilists, 0))
    /\ [][m_depth' >= m_depth]_vars

\* C10 witness: during a build, a leaf call of depth 1 is inside the critical
\* section after the counter has reached 2, while a leaf call of depth 2
\* waits to enter.
C10_Witness ==
    /\ pc = "build"
    /\ crit # Null
    /\ calls[crit].pc = "critical"
    /\ calls[crit].depth = 1
    /\ calls[crit].seen = 2
    /\ m_depth = 2
    /\ \E d \in DOMAIN calls : calls[d].pc = "leaf" /\ calls[d].depth = 2

\* the positions (0-based) of the work list a call owns
SliceOf(c) == { k \in 0..(Len(work) - 1) : calls[c].begin <= k /\ k < calls[c].end }

RECURSIVE IsAncestor(_, _)
\* call a is a proper ancestor of call c in the call tree
IsAncestor(a, c) ==
    IF c <= Root THEN FALSE
    ELSE ParentOf(c) = a \/ IsAncestor(a, ParentOf(c))

\* a call that has not returned yet
Running(c) == calls[c].pc # "done"

\* a call that has yet to read (and perhaps partition) its slice; once it
\* has made its node it touches the work list no more
TouchesWork(c) == calls[c].pc = "start"

\* the call that takes the step, if the step is one of the build
StepOf(c) == c \in DOMAIN calls /\ calls'[c] # calls[c]

\* C11: slice disjointness.  At every moment of the build, two invocations
\* neither of which is waiting for the other (neither is an ancestor of the
\* other) own disjoint slices of the work list; a step changes the work list
\* only inside the slice of the one call that takes it, and that call is
\* the only one yet to touch a position of that slice; and a parent that
\* has spawned its left task leaves the work list alone from then on.
C11_SliceDisjointness ==
    /\ [](\A c \in DOMAIN calls, d \in DOMAIN calls :
             (c # d /\ ~IsAncestor(c, d) /\ ~IsAncestor(d, c)) =>
                 SliceOf(c) \cap SliceOf(d) = {})
    /\ [][ work' # work /\ pc = "build" =>
             \E c \in DOMAIN calls :
                /\ TouchesWork(c) /\ calls'[c].pc = "waiting"
                /\ \A k \in 1..Len(work) : work'[k] # work[k] => (k - 1) \in SliceOf(c)
                /\ \A d \in DOMAIN calls :
                      (d # c /\ TouchesWork(d)) => SliceOf(c) \cap SliceOf(d) = {}
      ]_vars
    /\ [][ \A c \in DOMAIN calls :
             (calls[c].pc = "waiting" /\ StepOf(c)) => work' = work ]_vars

\* C11 witness: the spawned left task and the inline right call of the root
\* are both yet to run, the right one on a slice it is going to partition,
\* after the root has moved items of the work list.
C11_Witness ==
    /\ pc = "build"
    /\ work # InitialWork
    /\ LeftOf(Root) \in DOMAIN calls
    /\ TouchesWork(LeftOf(Root))
    /\ TouchesWork(RightOf(Root))
    /\ calls[RightOf(Root)].end - calls[RightOf(Root)].begin > LeafSize
    /\ ENABLED BuildSplit(RightOf(Root))

RECURSIVE Complete(_, _)
\* the subtree of the pointer tree at c is completely built: every inner
\* node of it has both child slots filled, down to the leaves
Complete(heap, c) ==
    /\ c \in DOMAIN heap
    /\ \/ heap[c].isLeaf
       \/ /\ heap[c].left # Null
          /\ heap[c].right # Null
          /\ Complete(heap, heap[c].left)
          /\ Complete(heap, heap[c].right)

\* C12: join before publish.  In every reachable state a node that its
\* caller can see (it is in a child slot of its parent, or it is the root
\* held by buildTree or by the tree object) is a completely built subtree,
\* and the call of an inner node has returned only if both the spawned left
\* call and the inline right call have returned.
C12_JoinBeforePublish ==
    /\ \A p \in DOMAIN nodes :
          /\ nodes[p].left # Null => Complete(nodes, nodes[p].left)
          /\ nodes[p].right # Null => Complete(nodes, nodes[p].right)
    /\ out # Null /\ pc \in {"build", "built"} => Complete(nodes, out)
    /\ m_root # Null => Complete(nodes, m_root)
    /\ \A c \in DOMAIN calls :
          (calls[c].pc = "done" /\ LeftOf(c) \in DOMAIN calls) =>
              calls[LeftOf(c)].pc = "done" /\ calls[RightOf(c)].pc = "done"

\* C12 witness: during a build the root can already see an inner node with
\* both children in one of its slots while its other child is not yet
\* returned and the root itself is not yet visible to buildTree.
C12_Witness ==
    /\ pc = "build"
    /\ out = Null
    /\ Root \in DOMAIN nodes
    /\ LeftOf(Root) \in DOMAIN calls
    /\ \E c \in { nodes[Root].left, nodes[Root].right } \ { Null } :
          /\ ~nodes[c].isLeaf
          /\ nodes[nodes[c].left].isLeaf
    /\ \E d \in { LeftOf(Root), RightOf(Root) } : calls[d].pc # "done"

\* the parallel phase: from the start of the top-level call to the end of
\* the parallel region
ParallelPhase == pc = "build"

\* both lists hold one entry per retained face of the whole input
Populated ==
    /\ i = Len(faces)
    /\ Len(m_triangles) = Len(RetainedFaces(Len(faces)))
    /\ Len(work) = Len(m_triangles)

\* C13 as stated: the triangle store and the work list are completely
\* populated before the parallel phase begins, and during the parallel
\* phase no step changes any element of either.
C13_BothReadOnly ==
    /\ [](ParallelPhase => Populated)
    /\ [][ParallelPhase => (m_triangles' = m_triangles /\ work' = work)]_vars

\* C13 amended: the triangle store and the work list are completely
\* populated by the preprocessing loop, which runs before any build call
\* exists; during the parallel phase no step changes the triangle store,
\* and the work list keeps its length and its items, but build calls move
\* its items to other positions (the in-place partition).
C13_StoreReadOnlyWorkPermuted ==
    /\ [](pc = "preprocess" => DOMAIN calls = {})
    /\ [](ParallelPhase => Populated)
    /\ [][ParallelPhase =>
             /\ m_triangles' = m_triangles
             /\ Len(work') = Len(work)
             /\ Range(work') = Range(work)]_vars

\* C13 witness: in the parallel phase, with a call already returned, the
\* work list holds the items of the preprocessing in another order.
C13_Witness ==
    /\ ParallelPhase
    /\ Len(work) >= 5
    /\ work # InitialWork
    /\ Range(work) = Range(InitialWork)
    /\ \E c \in DOMAIN calls : calls[c].pc = "done"

\* no build call is active: every call has returned and nobody is inside
\* the critical section
NoBuildActive ==
    /\ Root \in DOMAIN calls
    /\ \A c \in DOMAIN calls : calls[c].pc = "done"
    /\ crit = Null

\* C14: phase ordering.  buildTree has returned (and the later phases run)
\* only with every build call of the parallel region completed and the
\* root a complete tree; the flattening step starts from such a state and
\* no step of the flattening or of the copy pass is a build step; the copy
\* pass changes trianglesIntersectionData only after the whole tree has
\* been flattened, and leaves the flat arrays as they are.
C14_PhaseOrdering ==
    /\ [](pc \in {"built", "flattened", "done"} => NoBuildActive)
    /\ [](pc = "built" => m_root # Null /\ Complete(nodes, m_root))
    /\ [][(pc = "built" \/ pc = "flattened") =>
             /\ calls' = calls
             /\ m_depth' = m_depth
             /\ work' = work
             /\ crit' = crit]_vars
    /\ [][m_limits' # m_limits =>
             /\ pc = "built" /\ NoBuildActive
             /\ Len(m_limits') = 6 * SubtreeSize(nodes, m_root)]_vars
    /\ [][pc' = "done" /\ pc # "done" =>
             /\ pc = "flattened"
             /\ NumNodes >= 1
             /\ Len(m_triIndexList) = Len(m_triangles)
             /\ << m_limits', m_indexesOrTrilists', m_triIndexList' >>
                   = << m_limits, m_indexesOrTrilists, m_triIndexList >>]_vars

\* C14 witness: the tree of a build with five calls has been flattened and
\* the copy pass has not run yet.
C14_Witness ==
    /\ pc = "flattened"
    /\ Cardinality(DOMAIN calls) = 5
    /\ NumNodes = 5
    /\ m_trianglesIntersectionData = << >>
    /\ Len(m_triangles) >= 5

\* the items (by position in the slice) whose bucket index on the axis is
\* below the split index s, and the others
ItemsLeftOf(items, bb, axis, s) ==
    { j \in 1..Len(items) : BucketIndex(items[j].bb, axis, bb) < s }

ItemsRightOf(items, bb, axis, s) ==
    { j \in 1..Len(items) : BucketIndex(items[j].bb, axis, bb) >= s }

\* surfaceArea(box of the items J) * (number of items J)
SideCost(items, J) ==
    Surface(BoxAround({ items[j].bb : j \in J })) * Cardinality(J)

\* the cost of the candidate (axis, s)
CandidateCost(items, bb, axis, s) ==
    SideCost(items, ItemsLeftOf(items, bb, axis, s))
        + SideCost(items, ItemsRightOf(items, bb, axis, s))

\* the candidates << axis, split index >> that are not rejected: the axis
\* has an extent and either side has more than one item
Candidates(items, bb) ==
    { cand \in (0..2) \X (1..(BUCKETS - 1)) :
          /\ ~AxisTooShort(bb, cand[1])
          /\ Cardinality(ItemsLeftOf(items, bb, cand[1], cand[2])) > 1
          /\ Cardinality(ItemsRightOf(items, bb, cand[1], cand[2])) > 1 }

\* some candidate beats the cost of not splitting
SomeCandidateBeatsBaseline(items) ==
    \E bb \in { BoxAround({ items[j].bb : j \in 1..Len(items) }) } :
        \E cand \in Candidates(items, bb) :
            CandidateCost(items, bb, cand[1], cand[2]) < Len(items) * Surface(bb)

\* the nodes a step makes
NewNodes == (DOMAIN nodes') \ (DOMAIN nodes)

\* C15: leaf termination rule.  The node a build call makes is a leaf,
\* holding all triangle indices of its slice, exactly when the slice has at
\* most 4 items or no split candidate on any axis beats the baseline cost;
\* otherwise it is an inner node.  Hence every inner node covers at least 5
\* items, and an input with at most 4 retained triangles gives a single
\* root leaf, no inner node and a reported depth of 0.
C15_LeafTermination ==
    /\ [][ParallelPhase =>
             \A c \in NewNodes :
                 \E items \in { Slice(work, calls[c].begin, calls[c].end) } :
                    /\ nodes'[c].isLeaf <=>
                          (Len(items) <= 4 \/ ~SomeCandidateBeatsBaseline(items))
                    /\ nodes'[c].isLeaf =>
                          /\ Len(nodes'[c].triangles) = Len(items)
                          /\ \A j \in 1..Len(items) :
                                nodes'[c].triangles[j] = items[j].triangle]_vars
    /\ [](\A c \in DOMAIN nodes :
             ~nodes[c].isLeaf => calls[c].end - calls[c].begin >= 5)
    /\ []((pc = "built" /\ Len(m_triangles) <= 4) =>
             /\ DOMAIN nodes = {Root}
             /\ nodes[Root].isLeaf
             /\ getMaxDepth = 0)
    /\ []((Flattened /\ Len(m_triangles) <= 4) =>
             /\ NumNodes = 1
             /\ IsFlatLeaf(m_indexesOrTrilists, 0)
             /\ getMaxDepth = 0)

\* C15 witness: the root call has made a leaf of more than 4 triangles
\* because no candidate beat the baseline.
C15_Witness ==
    /\ pc = "built"
    /\ nodes[Root].isLeaf
    /\ Len(nodes[Root].triangles) >= 5
    /\ ~SomeCandidateBeatsBaseline(work)

\* the step in which call c adopts a split
SplitStep(c) ==
    /\ c \in DOMAIN calls
    /\ calls[c].pc = "start"
    /\ calls'[c].pc = "waiting"

\* the left and right counts the search found for the candidate it adopted
WinningCounts(items, bb, best) ==
    \E buckets \in { SortIntoBuckets(items, 1, best.bestAxis, bb, EmptyBuckets) } :
        << LeftSide(buckets, best.bestSplitIdx).count,
           RightSide(buckets, best.bestSplitIdx).count >>
          = << Cardinality(ItemsLeftOf(items, bb, best.bestAxis, best.bestSplitIdx)),
               Cardinality(ItemsRightOf(items, bb, best.bestAxis, best.bestSplitIdx)) >>

\* C16: split and partition agree.  In the step in which a call adopts a
\* split, the partition only permutes the call's slice (the rest of the
\* work list stays as it is); every item of the left sub-slice has a bucket
\* index on the winning axis below the winning split index and every item
\* of the right sub-slice one at or above it; the sizes of the two
\* sub-slices are the left and the right count of the winning candidate;
\* and each child gets at least 2 items and fewer than its parent.
C16_SplitAndPartitionAgree ==
    [][ParallelPhase =>
         \A c \in DOMAIN calls :
             SplitStep(c) =>
                \E begin \in { calls[c].begin } : \E end \in { calls[c].end } :
                \E items \in { Slice(work, begin, end) } :
                \E bb \in { SliceBb(items) } :
                \E best \in { BestSplit(items, bb) } :
                \E l \in { calls'[LeftOf(c)] } : \E r \in { calls'[RightOf(c)] } :
                   /\ Len(work') = Len(work)
                   /\ Range(Slice(work', begin, end)) = Range(items)
                   /\ \A k \in 1..Len(work) :
                         (k <= begin \/ k > end) => work'[k] = work[k]
                   /\ l.begin = begin /\ l.end = r.begin /\ r.end = end
                   /\ \A k \in (l.begin + 1)..l.end :
                         BucketIndex(work'[k].bb, best.bestAxis, bb) < best.bestSplitIdx
                   /\ \A k \in (r.begin + 1)..r.end :
                         BucketIndex(work'[k].bb, best.bestAxis, bb) >= best.bestSplitIdx
                   /\ WinningCounts(items, bb, best)
                   /\ l.end - l.begin
                         = Cardinality(ItemsLeftOf(items, bb, best.bestAxis, best.bestSplitIdx))
                   /\ r.end - r.begin
                         = Cardinality(ItemsRightOf(items, bb, best.bestAxis, best.bestSplitIdx))
                   /\ l.end - l.begin >= 2 /\ l.end - l.begin < end - begin
                   /\ r.end - r.begin >= 2 /\ r.end - r.begin < end - begin
    ]_vars

\* C16 witness: a call below the root has adopted a split whose partition
\* moved items, and its children have 3 and 2 items.
C16_Witness ==
    /\ ParallelPhase
    /\ \E c \in DOMAIN calls :
          /\ c # Root
          /\ calls[c].pc = "waiting"
          /\ calls[LeftOf(c)].pc = "start"
          /\ calls[RightOf(c)].pc = "start"
          /\ calls[LeftOf(c)].end - calls[LeftOf(c)].begin = 3
          /\ calls[RightOf(c)].end - calls[RightOf(c)].begin = 2
          /\ \E k \in (calls[c].begin + 1)..(calls[c].end - 1) :
                work[k].triangle > work[k + 1].triangle

\* candidate a comes before candidate b in the order of the search: lower
\* axis first, then lower split index
Earlier(a, b) == a[1] < b[1] \/ (a[1] = b[1] /\ a[2] < b[2])

\* the split-selection rule for the result best of the search on the items
\* with box bb
SelectionRule(items, bb, best) ==
    \E cands \in { Candidates(items, bb) } :
    \E baseline \in { Len(items) * Surface(bb) } :
       IF \A cand \in cands : CandidateCost(items, bb, cand[1], cand[2]) >= baseline
       THEN best.bestAxis = -1 /\ best.bestSplitIdx = -1
       ELSE /\ << best.bestAxis, best.bestSplitIdx >> \in cands
            /\ best.minCost = CandidateCost(items, bb, best.bestAxis, best.bestSplitIdx)
            /\ best.minCost < baseline
            /\ \A cand \in cands :
                  \E cost \in { CandidateCost(items, bb, cand[1], cand[2]) } :
                     /\ cost >= best.minCost
                     /\ cost = best.minCost =>
                           ~Earlier(cand, << best.bestAxis, best.bestSplitIdx >>)

\* the step in which call c, on a slice of more than 4 items, has run the
\* search and makes its node
SearchStep(c) ==
    /\ c \in DOMAIN calls
    /\ calls[c].pc = "start"
    /\ calls'[c].pc # "start"
    /\ calls[c].end - calls[c].begin > LeafSize

\* C17: split selection.  Whenever a call runs the search, the (axis, split
\* index) it ends with is a non-rejected candidate of minimum cost
\* surfaceArea(left)*leftCount + surfaceArea(right)*rightCount over the axes
\* 0..2 and the split positions 1..31, its cost is strictly below the
\* baseline itemCount*surfaceArea(bb), and no candidate of equal cost comes
\* earlier in the order of the search; if no candidate is strictly below
\* the baseline, none is adopted and the call makes a leaf.
C17_SplitSelection ==
    [][ParallelPhase =>
         \A c \in DOMAIN calls :
             SearchStep(c) =>
                \E items \in { Slice(work, calls[c].begin, calls[c].end) } :
                \E bb \in { SliceBb(items) } :
                \E best \in { BestSplit(items, bb) } :
                   /\ SelectionRule(items, bb, best)
                   /\ (best.bestAxis = -1) <=> nodes'[c].isLeaf
                   /\ best.bestAxis # -1 =>
                         calls'[LeftOf(c)].end - calls[c].begin
                           = Cardinality(ItemsLeftOf(items, bb, best.bestAxis,
                                                     best.bestSplitIdx))
    ]_vars

\* the candidates of the items whose cost is the given one
CandidatesOfCost(items, bb, cost) ==
    { cand \in Candidates(items, bb) :
          CandidateCost(items, bb, cand[1], cand[2]) = cost }

\* C17 witness: the root call has adopted a split for which the search had
\* several candidates of the minimum cost, on a later axis and on a later
\* split position of the adopted axis.
C17_Witness ==
    /\ ParallelPhase
    /\ DOMAIN calls = { Root, LeftOf(Root), RightOf(Root) }
    /\ calls[LeftOf(Root)].pc = "start"
    /\ calls[RightOf(Root)].pc = "start"
    /\ \E bb \in { SliceBb(InitialWork) } :
       \E best \in { BestSplit(InitialWork, bb) } :
       \E ch \in { CandidatesOfCost(InitialWork, bb, best.minCost) } :
          /\ \E b \in ch : b[1] = best.bestAxis /\ b[2] > best.bestSplitIdx
          /\ \E b \in ch : b[1] > best.bestAxis

\* the number of work items of the slice of call c
SliceSize(c) == calls[c].end - calls[c].begin

\* every call but the top-level one works on a strictly smaller slice than
\* the call that made it
SlicesShrink ==
    \A c \in DOMAIN calls :
        c # Root => SliceSize(c) < SliceSize(ParentOf(c))

\* the steps of the call c of buildTreeRecursive
Task(c) ==
    \/ BuildSmallLeaf(c)
    \/ BuildNoSplitLeaf(c)
    \/ BuildSplit(c)
    \/ EnterCritical(c)
    \/ LeaveCritical(c)
    \/ Join(c)

\* call c has not returned and cannot take a step
Blocked(c) ==
    /\ c \in DOMAIN calls
    /\ calls[c].pc # "done"
    /\ ~ENABLED Task(c)

\* call c waits at the taskwait for its two calls
AtJoinWait(c) == calls[c].pc = "waiting" /\ ~Joined(calls, c)

\* call c has made its leaf and waits at "#pragma omp critical" while
\* another call is inside
AtCriticalEntry(c) == calls[c].pc = "leaf" /\ ~CanEnterCritical(crit)

\* the call inside the critical section can leave it
CriticalIsLeft == crit # Null => ENABLED LeaveCritical(crit)

\* every call has returned
AllReturned ==
    /\ Root \in DOMAIN calls
    /\ \A c \in DOMAIN calls : calls[c].pc = "done"

\* a call leaves its join-wait only by returning, a call that has returned
\* stays so, and the build phase is left only when every call has returned
JoinWaitEndsInReturn ==
    [][/\ \A c \in DOMAIN calls :
             /\ calls[c].pc = "waiting" =>
                   calls'[c].pc = "waiting" \/ calls'[c].pc = "done"
             /\ calls[c].pc = "done" => calls'[c].pc = "done"
       /\ pc = "build" /\ pc' # "build" => AllReturned]_vars

\* when the build phase is left, buildTree has returned the node of the
\* top-level call
RootProduced ==
    [][pc = "build" /\ pc' # "build" =>
          pc' = "built" /\ m_root' = Root /\ Root \in DOMAIN nodes']_vars

\* the phases follow each other: preprocessing, build, flattening, conversion
PhasesInOrder ==
    [][pc' # pc =>
          << pc, pc' >> \in { << "preprocess", "build" >>, << "build", "built" >>,
                              << "built", "flattened" >>, << "flattened", "done" >> }]_vars

\* the construction finishes
BuildFinishes == <>(pc = "done")

\* the construction never stops before it has finished
NoDeadlock == pc = "done" \/ ENABLED Next

\* C18 as stated: every call works on a strictly smaller slice than its
\* parent, a call that cannot take a step is at a join-wait, and under fair
\* scheduling the construction finishes, after every join-wait has returned
\* and the root has been produced, without deadlock.  (It fails: a call that has made
\* its leaf is blocked at the critical section of the depth update while
\* another call is inside.)
C18_OnlyJoinWaitsBlock ==
    /\ [](SlicesShrink /\ NoDeadlock)
    /\ [](\A c \in CallIds : Blocked(c) => AtJoinWait(c))
    /\ JoinWaitEndsInReturn
    /\ RootProduced
    /\ PhasesInOrder
    /\ BuildFinishes

\* C18, amended: every call works on a strictly smaller slice than its
\* parent; a call that cannot take a step is at a join-wait or at the entry
\* of the critical section of the depth update, and the call inside that
\* section can always leave it; under fair scheduling the construction
\* finishes, after every join-wait has returned and the root has been
\* produced, without deadlock.
C18_Termination ==
    /\ [](SlicesShrink /\ NoDeadlock /\ CriticalIsLeft)
    /\ [](\A c \in CallIds : Blocked(c) => AtJoinWait(c) \/ AtCriticalEntry(c))
    /\ JoinWaitEndsInReturn
    /\ RootProduced
    /\ PhasesInOrder
    /\ BuildFinishes

\* C18 witness: the top-level call waits at its taskwait for two calls that
\* have not returned, one of them inside the critical section and the other
\* blocked at its entry.
C18_Witness ==
    /\ ParallelPhase
    /\ Root \in DOMAIN calls
    /\ Blocked(Root)
    /\ AtJoinWait(Root)
    /\ \E c \in DOMAIN calls, d \in DOMAIN calls :
          /\ crit = c
          /\ d # c
          /\ Blocked(d)
          /\ AtCriticalEntry(d)

====
